---- MODULE Spec2Model ----
(***************************************************************************)
(* Inverse-kinematics solver of the hexapod robot simulator                *)
(* (src/hexapod/ik_solver.py).                                             *)
(*                                                                         *)
(* Lengths and coordinates are integers.  Angles are integer degrees taken *)
(* from the lattice of the 3-4-5 and 7-24-25 right triangles               *)
(* (0, 16, 37, 53, 74, 90, ... 180), on which sines and cosines are exact  *)
(* multiples of 1/25, so that the planar trigonometry of the solver is     *)
(* computed exactly as the code computes it.                               *)
(***************************************************************************)
EXTENDS Integers, Sequences, FiniteSets, TLC

\* ---------------------------------------------------------------------
\* Bounds of the model
\* ---------------------------------------------------------------------
\* largest length the integer square root of `length` searches
MaxCoord == 400

\* ---------------------------------------------------------------------
\* Program constants and configuration
\* ---------------------------------------------------------------------
LEG_COUNT == 6
Legs == 0 .. (LEG_COUNT - 1)

\* settings.py: configured range-of-motion limits
ALPHA_MAX_ANGLE == 90
BETA_MAX_ANGLE == 120
GAMMA_MAX_ANGLE == 60

None == "None"

\* ---------------------------------------------------------------------
\* numpy trigonometry on the angle lattice (values scaled by UnitScale)
\* ---------------------------------------------------------------------
TableAngles == {0, 16, 37, 53, 74, 90, 106, 127, 143, 164, 180}

np_abs(a) == IF a < 0 THEN -a ELSE a

np_cos(a) ==
    LET m == np_abs(a)
    IN  CASE m = 0 -> 25 [] m = 16 -> 24 [] m = 37 -> 20 [] m = 53 -> 15
          [] m = 74 -> 7 [] m = 90 -> 0 [] m = 106 -> -7 [] m = 127 -> -15
          [] m = 143 -> -20 [] m = 164 -> -24 [] m = 180 -> -25

np_sin(a) == IF a < 0 THEN -np_cos(90 + a) ELSE np_cos(90 - a)

\* the scale of the table: unit vectors are stored with this length
UnitScale == np_cos(0)

\* ---------------------------------------------------------------------
\* hexapod.points: the vector algebra the solver imports
\* ---------------------------------------------------------------------
Point(x, y, z) == [name |-> "", x |-> x, y |-> y, z |-> z, wrt |-> <<>>]

Max(a, b) == IF a > b THEN a ELSE b
Min(a, b) == IF a < b THEN a ELSE b

\* the exact square root of x^2 + y^2 + z^2, searched between the largest
\* coordinate and the sum of the coordinates
length(v) ==
    LET ax == np_abs(v.x)
        ay == np_abs(v.y)
        az == np_abs(v.z)
    IN  CHOOSE n \in Max(ax, Max(ay, az)) .. Min(ax + ay + az, MaxCoord) :
            n * n = ax * ax + ay * ay + az * az

add_vectors(a, b) == Point(a.x + b.x, a.y + b.y, a.z + b.z)

vector_from_to(a, b) == Point(b.x - a.x, b.y - a.y, b.z - a.z)

\* a unit vector, stored scaled by UnitScale
get_unit_vector(v) ==
    LET n == length(v)
    IN  Point((UnitScale * v.x) \div n, (UnitScale * v.y) \div n,
              (UnitScale * v.z) \div n)

\* scalar multiple of a unit vector stored scaled by UnitScale
scalar_multiply(u, s) ==
    Point((u.x * s) \div UnitScale, (u.y * s) \div UnitScale,
          (u.z * s) \div UnitScale)

is_triangle(a, b, c) == (a + b > c) /\ (a + c > b) /\ (b + c > a)

arccos_degrees(c) == CHOOSE t \in TableAngles : np_cos(t) = c

\* unsigned angle between two vectors, in degrees, 0 .. 180
angle_between(a, b) ==
    LET dot == a.x * b.x + a.y * b.y + a.z * b.z
    IN  arccos_degrees((UnitScale * dot) \div (length(a) * length(b)))

\* law of cosines: the angle opposite side c of the triangle a, b, c
angle_opposite_of_last_side(a, b, c) ==
    arccos_degrees((UnitScale * (a * a + b * b - c * c)) \div (2 * a * b))

\* rotation frame about the z axis by a signed angle
rotz(theta) == [kind |-> "rotz", angle |-> theta]

\* Point.update_point_wrt: the point re-expressed through a frame
update_point_wrt(p, frame) == [p EXCEPT !.wrt = Append(@, frame)]

\* Point.move_xyz: the point translated
move_xyz(p, x, y, z) ==
    [p EXCEPT !.wrt = Append(@, [kind |-> "move", x |-> x, y |-> y, z |-> z])]

\* ---------------------------------------------------------------------
\* The robot model the solver reads and mutates (hexapod.models)
\* ---------------------------------------------------------------------
LEG_NAMES ==
    <<"right-middle", "right-front", "left-front",
      "left-middle", "left-back", "right-back">>

\* static mounting angle of each leg
COXIA_AXES == <<0, 45, 135, 180, 225, 315>>

\* body mount points of the resting figure
BODY_X == <<100, 100, -100, -100, -100, 100>>
BODY_Y == <<0, 100, 100, 0, -100, -100>>

\* leg dimensions (coxia, femur, tibia) of the hexapods considered
Dimensions == {<<50, 100, 75>>, <<50, 75, 100>>}

Named(p, name) == [p EXCEPT !.name = name]

\* a leg of the figure at rest under a stance: coxia and femur level,
\* tibia vertical, foot on the ground (z = 0)
RestLeg(dim, i, hip_stance, leg_stance) ==
    LET s == IF BODY_X[i + 1] > 0 THEN 1 ELSE -1
        bx == BODY_X[i + 1]
        by == BODY_Y[i + 1]
        reach == dim[1] + dim[2] - leg_stance
    IN  [name |-> LEG_NAMES[i + 1],
         p0 |-> Named(Point(bx, by, dim[3]), "body-contact"),
         p1 |-> Named(Point(bx + s * dim[1], by + hip_stance, dim[3]), "coxia"),
         p2 |-> Named(Point(bx + s * reach, by + hip_stance, dim[3]), "femur"),
         p3 |-> Named(Point(bx + s * reach, by + hip_stance, 0), "tibia")]

foot_tip(leg) == leg.p3

\* the hexapod as constructed: resting stance, level body at tibia height
NewHexapod(dim) ==
    [coxia |-> dim[1], femur |-> dim[2], tibia |-> dim[3],
     mid |-> 100, side |-> 100,
     legs |-> [i \in Legs |-> RestLeg(dim, i, 0, 0)],
     body |-> [vertices |->
                 [i \in Legs |-> Point(BODY_X[i + 1], BODY_Y[i + 1], dim[3])]],
     body_rotation_frame |-> [kind |-> "frame", rot_x |-> 0, rot_y |-> 0,
                              rot_z |-> 0]]

\* Hexapod.update_stance: the legs are laid out again for the new stance
update_stance(h, hip_stance, leg_stance) ==
    [h EXCEPT !.legs =
        [i \in Legs |->
            RestLeg(<<h.coxia, h.femur, h.tibia>>, i, hip_stance, leg_stance)]]

\* Hexapod.detach_body_rotate_and_translate: the body alone is rotated
\* (a tilt about the x axis lifts the mount points with y > 0 and lowers
\* those with y < 0) and translated; the legs are left where they are
detach_body_rotate_and_translate(h, rotx, roty, rotz_, tx, ty, tz) ==
    [h EXCEPT
        !.body.vertices =
            [i \in Legs |->
                Point(BODY_X[i + 1] + tx, BODY_Y[i + 1] + ty,
                      h.tibia + tz + (BODY_Y[i + 1] * np_sin(rotx)) \div UnitScale)],
        !.body_rotation_frame =
            [kind |-> "frame", rot_x |-> rotx, rot_y |-> roty, rot_z |-> rotz_]]

\* ---------------------------------------------------------------------
\* Requests: ik_parameters (percentages in hundredths, angles in degrees)
\* ---------------------------------------------------------------------
IKP(pz, rx, hip, leg) ==
    [percent_x |-> 0, percent_y |-> 0, percent_z |-> pz,
     rot_x |-> rx, rot_y |-> 0, rot_z |-> 0,
     hip_stance |-> hip, leg_stance |-> leg]

IKParameters ==
    { IKP(0, 0, 0, 0),        \* body at rest height, level
      IKP(-60, 16, 5, 10),    \* lowered and tilted, new stance
      IKP(-100, 0, 0, 0),     \* mount points exactly at foot height
      IKP(-100, 16, 0, 0),    \* tilted: two mount points below the feet
      IKP(-120, 0, 0, 0) }    \* every mount point below its foot

\* ---------------------------------------------------------------------
\* State
\* ---------------------------------------------------------------------
VARIABLES
    heap,                \* object id -> Hexapod object
    hexapod,             \* id of the hexapod passed to the solver
    detached_hexapod,    \* id of the deep copy taken by the request (0: none)
    poses,               \* the module-level pose table
    ik_parameters,       \* the parameters of the request in progress
    pc,                  \* "idle", "loop" or "returned"
    i,                   \* index of the next leg of the loop
    legs_up_in_the_air,  \* legs recorded as airborne in this request
    result,              \* the tuple returned by the request
    at_snapshot,         \* history: the live hexapod's value at deepcopy
    solved,              \* history: per leg, what the solver computed
    evaluated,           \* history: the checks evaluated, in order
    handed,              \* the tuples the caller has received, in order
    twist_call           \* a call of compute_twist_wrt_to_world on its own

vars ==
    <<heap, hexapod, detached_hexapod, poses, ik_parameters, pc, i,
      legs_up_in_the_air, result, at_snapshot, solved, evaluated, handed,
      twist_call>>

\* const.HEXAPOD_POSE: the table of the 18 angles, all zero
HEXAPOD_POSE ==
    [k \in Legs |-> [name |-> LEG_NAMES[k + 1],
                     coxia |-> 0, femur |-> 0, tibia |-> 0]]

\* deepcopy as a plain assignment: the "copy" is the object itself
deepcopy_alias(hp, ref) == [id |-> ref, heap |-> hp]

\* copy.deepcopy: a new object, equal to the original and sharing nothing
deepcopy(hp, ref) ==
    [id |-> 2,
     heap |-> [r \in DOMAIN hp \cup {2} |-> IF r = 2 THEN hp[ref] ELSE hp[r]]]

\* alerts: the message text and the values formatted into it
Alert(text, leg, legs, angle, limit) ==
    [text |-> text, leg |-> leg, legs |-> legs, angle |-> angle,
     limit |-> limit]

NoAlert == Alert(None, "", <<>>, 0, 0)

NoResult == [hexapod |-> 0, poses |-> None, alert |-> NoAlert]

NoGeom ==
    [unit_coxia_vector |-> Point(0, 0, 0), p3 |-> Point(0, 0, 0),
     twist |-> 0, is_ccw |-> FALSE]

NotSolved ==
    [reached |-> FALSE, geom |-> NoGeom, d |-> 0, branch |-> "", beta |-> 0,
     gamma |-> 0, alpha |-> 0, p1 |-> Point(0, 0, 0), p2 |-> Point(0, 0, 0),
     p3 |-> Point(0, 0, 0), posed |-> FALSE, committed |-> FALSE]

NoTwistCall == [alpha |-> 0, coxia_axis |-> 0, out |-> 0, done |-> FALSE]

InitSolver ==
    /\ \E dim \in Dimensions :
          /\ heap = [r \in {1} |-> NewHexapod(dim)]
          /\ at_snapshot = NewHexapod(dim)
    /\ hexapod = 1
    /\ detached_hexapod = 0
    /\ poses = HEXAPOD_POSE
    /\ ik_parameters = IKP(0, 0, 0, 0)
    /\ pc = "idle"
    /\ i = 0
    /\ legs_up_in_the_air = <<>>
    /\ result = NoResult
    /\ solved = [k \in Legs |-> NotSolved]
    /\ evaluated = <<>>
    /\ handed = <<>>

Init == InitSolver /\ twist_call = NoTwistCall

\* the loop returning after its first iteration
body_contact_shoved_on_ground_first_leg(h) ==
    h.body.vertices[0].z < foot_tip(h.legs[0]).z

body_contact_shoved_on_ground(h) ==
    \E k \in Legs : h.body.vertices[k].z < foot_tip(h.legs[k]).z

\* inverse_kinematics_update, from the call to the start of the leg loop
Request(params) ==
    /\ pc = "idle"
    /\ ik_parameters' = params
    /\ LET h0 == heap[hexapod]
           tx == (params.percent_x * h0.mid) \div 100
           ty == (params.percent_y * h0.side) \div 100
           tz == (params.percent_z * h0.tibia) \div 100
           h1 == update_stance(h0, params.hip_stance,
                               params.leg_stance)
           h2 == detach_body_rotate_and_translate(
                     h1, params.rot_x, params.rot_y,
                     params.rot_z, tx, ty, tz)
           cp == deepcopy([heap EXCEPT ![hexapod] = h2], hexapod)
       IN  /\ heap' = cp.heap
           /\ detached_hexapod' = cp.id
           /\ at_snapshot' = h2
           /\ IF body_contact_shoved_on_ground(cp.heap[hexapod])
              THEN /\ result' =
                        [hexapod |-> cp.id, poses |-> None,
                         alert |-> Alert("body contact shoved on ground",
                                         "", <<>>, 0, 0)]
                   /\ pc' = "returned"
              ELSE /\ result' = result
                   /\ pc' = "loop"
    /\ i' = 0
    /\ legs_up_in_the_air' = <<>>
    /\ evaluated' = << <<-1, "body">> >>
    /\ UNCHANGED <<hexapod, poses, solved, handed, twist_call>>

\* ---------------------------------------------------------------------
\* The helpers of the solver
\* ---------------------------------------------------------------------
\* the foot tip written from the tibia joint's slot
update_hexapod_points_shifted(h, leg_id, points) ==
    [h EXCEPT
        !.legs[leg_id].p0 = Named(points[1], h.legs[leg_id].p0.name),
        !.legs[leg_id].p1 = Named(points[2], h.legs[leg_id].p1.name),
        !.legs[leg_id].p2 = Named(points[3], h.legs[leg_id].p2.name),
        !.legs[leg_id].p3 = Named(points[3], h.legs[leg_id].p3.name)]

update_hexapod_points(h, leg_id, points) ==
    [h EXCEPT
        !.legs[leg_id].p0 = Named(points[1], h.legs[leg_id].p0.name),
        !.legs[leg_id].p1 = Named(points[2], h.legs[leg_id].p1.name),
        !.legs[leg_id].p2 = Named(points[3], h.legs[leg_id].p2.name),
        !.legs[leg_id].p3 = Named(points[4], h.legs[leg_id].p3.name)]

\* geom.twist is angle_between(unit_coxia_vector, hexapod.x_axis) and
\* geom.is_ccw is is_counter_clockwise(unit_coxia_vector, x_axis, z_axis)
find_twist_frame(h, geom) ==
    LET twist == IF geom.is_ccw THEN -geom.twist ELSE geom.twist
    IN  [twist |-> twist, twist_frame |-> rotz(twist)]

\* the wraparound taken at 180 instead of above it
compute_twist_wrt_to_world_inclusive(alpha, coxia_axis) ==
    LET a == (alpha - coxia_axis) % 360
    IN  IF a >= 180 THEN a - 360
        ELSE IF a < -180 THEN 360 + a
        ELSE a

compute_twist_wrt_to_world(alpha, coxia_axis) ==
    LET a == (alpha - coxia_axis) % 360
    IN  IF a > 180 THEN a - 360
        ELSE IF a < -180 THEN 360 + a
        ELSE a

\* leg.split("-") on the names of the six legs
split_dash(leg) ==
    CASE leg = "right-middle" -> <<"right", "middle">>
      [] leg = "right-front" -> <<"right", "front">>
      [] leg = "left-front" -> <<"left", "front">>
      [] leg = "left-middle" -> <<"left", "middle">>
      [] leg = "left-back" -> <<"left", "back">>
      [] leg = "right-back" -> <<"right", "back">>

list_count(list, x) == Cardinality({n \in DOMAIN list : list[n] = x})

\* three airborne legs already counted as too many
legs_too_short_three(legs) ==
    LET leg_positions == [n \in DOMAIN legs |-> split_dash(legs[n])[1]]
    IN  IF Len(legs) >= 3
        THEN [flag |-> TRUE,
              msg |-> Alert("Unstable. Too many legs off the floor.",
                            "", legs, 0, 0)]
        ELSE [flag |-> FALSE, msg |-> NoAlert]

legs_too_short(legs) ==
    LET leg_positions == [n \in DOMAIN legs |-> split_dash(legs[n])[1]]
    IN  IF Len(legs) >= 4
        THEN [flag |-> TRUE,
              msg |-> Alert("Unstable. Too many legs off the floor.",
                            "", legs, 0, 0)]
        ELSE IF Len(legs) = 3 /\ list_count(leg_positions, "left") = 3
        THEN [flag |-> TRUE,
              msg |-> Alert("Unstable. All left legs off the ground.",
                            "", legs, 0, 0)]
        ELSE IF Len(legs) = 3 /\ list_count(leg_positions, "right") = 3
        THEN [flag |-> TRUE,
              msg |-> Alert("Unstable. All right legs off the ground.",
                            "", legs, 0, 0)]
        ELSE [flag |-> FALSE, msg |-> NoAlert]

\* the limit itself taken as a violation
angle_above_limit_inclusive(angle, angle_range, leg_name, angle_name) ==
    IF np_abs(angle) >= angle_range
    THEN [flag |-> TRUE,
          msg |-> Alert(angle_name, leg_name, <<>>, angle, angle_range)]
    ELSE [flag |-> FALSE, msg |-> NoAlert]

\* the violation flagged without its message
angle_above_limit_no_message(angle, angle_range, leg_name, angle_name) ==
    IF np_abs(angle) > angle_range
    THEN [flag |-> TRUE, msg |-> NoAlert]
    ELSE [flag |-> FALSE, msg |-> NoAlert]

angle_above_limit(angle, angle_range, leg_name, angle_name) ==
    IF np_abs(angle) > angle_range
    THEN [flag |-> TRUE,
          msg |-> Alert(angle_name, leg_name, <<>>, angle, angle_range)]
    ELSE [flag |-> FALSE, msg |-> NoAlert]

\* the tibia angle checked before the femur angle
beta_gamma_not_within_range_gamma_first(beta, gamma, leg_name) ==
    LET beta_limit ==
            angle_above_limit(beta, BETA_MAX_ANGLE, leg_name,
                              "beta angle (beta)")
        gamma_limit ==
            angle_above_limit(gamma, GAMMA_MAX_ANGLE, leg_name,
                              "gamma angle (gamma)")
    IN  IF gamma_limit.flag THEN gamma_limit
        ELSE IF beta_limit.flag THEN beta_limit
        ELSE [flag |-> FALSE, msg |-> NoAlert]

beta_gamma_not_within_range(beta, gamma, leg_name) ==
    LET beta_limit ==
            angle_above_limit(beta, BETA_MAX_ANGLE, leg_name,
                              "beta angle (beta)")
        gamma_limit ==
            angle_above_limit(gamma, GAMMA_MAX_ANGLE, leg_name,
                              "gamma angle (gamma)")
    IN  IF beta_limit.flag THEN beta_limit
        ELSE IF gamma_limit.flag THEN gamma_limit
        ELSE [flag |-> FALSE, msg |-> NoAlert]

\* ---------------------------------------------------------------------
\* One iteration of the leg loop of inverse_kinematics_update.
\* geom holds what the vector algebra returns for this leg from the world
\* positions: the unit coxia vector (the projection of the body-to-foot
\* vector onto the body plane, normalised), the foot target p3 in the
\* local leg frame, and the unsigned twist angle with its orientation.
\* ---------------------------------------------------------------------
\* CASE A: a triangle forms with the coxia-to-foot vector, femur and tibia
triangle_pose(h, p1, p3, coxia_to_foot_vector2d, d) ==
    LET x_axis == Point(1, 0, 0)
        theta == angle_opposite_of_last_side(d, h.femur, h.tibia)
        phi == angle_between(coxia_to_foot_vector2d, x_axis)
        beta == IF p3.z > 0 THEN theta + phi ELSE theta - phi
        z_ == (h.femur * np_sin(beta)) \div UnitScale
        x_ == p1.x + (h.femur * np_cos(beta)) \div UnitScale
        p2 == Point(x_, 0, z_)
        femur_vector == vector_from_to(p1, p2)
        tibia_vector == vector_from_to(p2, p3)
        gamma == 90 - angle_between(femur_vector, tibia_vector)
    IN  [p2 |-> p2, p3 |-> p3, beta |-> beta, gamma |-> gamma]

\* the tibia laid from the coxia joint instead of from the tibia joint
extended_pose_from_coxia(h, p1, coxia_to_foot_vector2d) ==
    LET femur_tibia_direction == get_unit_vector(coxia_to_foot_vector2d)
        femur_vector == scalar_multiply(femur_tibia_direction, h.femur)
        p2 == add_vectors(p1, femur_vector)
        tibia_vector == scalar_multiply(femur_tibia_direction, h.tibia)
        p3 == add_vectors(p1, tibia_vector)
        leg_x_axis == Point(1, 0, 0)
        beta == angle_between(leg_x_axis, femur_vector)
    IN  [p2 |-> p2, p3 |-> p3,
         beta |-> IF femur_vector.z < 0 THEN -beta ELSE beta, gamma |-> 0]

\* CASE B, once the leg is recorded as airborne: femur and tibia are laid
\* along the coxia-to-foot direction
extended_pose(h, p1, coxia_to_foot_vector2d) ==
    LET femur_tibia_direction == get_unit_vector(coxia_to_foot_vector2d)
        femur_vector == scalar_multiply(femur_tibia_direction, h.femur)
        p2 == add_vectors(p1, femur_vector)
        tibia_vector == scalar_multiply(femur_tibia_direction, h.tibia)
        p3 == add_vectors(p2, tibia_vector)
        leg_x_axis == Point(1, 0, 0)
        beta == angle_between(leg_x_axis, femur_vector)
    IN  [p2 |-> p2, p3 |-> p3,
         beta |-> IF femur_vector.z < 0 THEN -beta ELSE beta, gamma |-> 0]

Stop(alert, checks, air, hist) ==
    [ret |-> TRUE, alert |-> alert, checks |-> checks, air |-> air,
     hist |-> hist, points |-> <<>>]

Posed(hist, pose) ==
    [hist EXCEPT !.posed = TRUE, !.beta = pose.beta, !.gamma = pose.gamma,
                 !.p2 = pose.p2, !.p3 = pose.p3]

\* step 3: the coxia limit; the points are moved from the local leg frame
\* to the world frame and the leg is ready to be committed
check_alpha_and_compose(h, k, air, hist, pose, checks, tw, alpha) ==
    LET leg_name == h.legs[k].name
        body_contact == h.body.vertices[k]
        alpha_limit ==
            angle_above_limit(alpha, ALPHA_MAX_ANGLE, leg_name,
                              "coxia angle (alpha)")
        local == <<Point(0, 0, 0), hist.p1, pose.p2, pose.p3>>
        points ==
            [n \in 1 .. 4 |->
                move_xyz(
                    update_point_wrt(
                        update_point_wrt(local[n], tw.twist_frame),
                        h.body_rotation_frame),
                    body_contact.x, body_contact.y, body_contact.z)]
    IN  IF alpha_limit.flag
        THEN Stop(alpha_limit.msg, checks, air, [hist EXCEPT !.alpha = alpha])
        ELSE [ret |-> FALSE, alert |-> NoAlert, checks |-> checks,
              air |-> air,
              hist |-> [hist EXCEPT !.alpha = alpha, !.committed = TRUE],
              points |-> points]

\* step 2: alpha and the twist frame
twist_leg(h, k, geom, air, hist, pose, checks, tw) ==
    check_alpha_and_compose(
        h, k, air, hist, pose, checks, tw,
        compute_twist_wrt_to_world(tw.twist, COXIA_AXES[k + 1]))

\* p1, p2, p3, beta and gamma are final: the femur and tibia limits
check_beta_gamma(h, k, geom, air, hist, pose, checks) ==
    LET leg_name == h.legs[k].name
        not_within_range ==
            beta_gamma_not_within_range(pose.beta, pose.gamma, leg_name)
        rangeChecks ==
            IF angle_above_limit(pose.beta, BETA_MAX_ANGLE, leg_name, "").flag
            THEN <<"beta">> ELSE <<"beta", "gamma">>
    IN  IF not_within_range.flag
        THEN Stop(not_within_range.msg, checks \o rangeChecks, air, hist)
        ELSE twist_leg(h, k, geom, air, hist, pose,
                       checks \o <<"beta", "gamma", "alpha">>,
                       find_twist_frame(h, geom))

\* CASE A, after the pose: the tibia joint must not be below the foot
case_a(h, k, geom, air, hist, pose) ==
    IF pose.p2.z < pose.p3.z
    THEN Stop(Alert("the ground is blocking the path", h.legs[k].name,
                    <<>>, 0, 0),
              <<"coxia", "ground">>, air, hist)
    ELSE check_beta_gamma(h, k, geom, air, hist, pose, <<"coxia", "ground">>)

\* CASE B, the leg recorded as airborne: the stability rule, then the pose
record_airborne(h, k, geom, air, hist, p1, coxia_to_foot_vector2d, msg) ==
    IF msg.flag
    THEN Stop(msg.msg,
              <<"coxia", "femur too long", "tibia too long", "stability">>,
              air, hist)
    ELSE check_beta_gamma(
             h, k, geom, air,
             Posed(hist, extended_pose(h, p1, coxia_to_foot_vector2d)),
             extended_pose(h, p1, coxia_to_foot_vector2d),
             <<"coxia", "femur too long", "tibia too long", "stability">>)

\* CASE B: the target cannot be reached
case_b(h, k, geom, air, hist, p1, coxia_to_foot_vector2d, d) ==
    IF d + h.tibia < h.femur
    THEN Stop(Alert("Femur length is too long", h.legs[k].name, <<>>, 0, 0),
              <<"coxia", "femur too long">>, air, hist)
    ELSE IF d + h.femur < h.tibia
    THEN Stop(Alert("Tibia length is too long", h.legs[k].name, <<>>, 0, 0),
              <<"coxia", "femur too long", "tibia too long">>, air, hist)
    ELSE record_airborne(h, k, geom, Append(air, h.legs[k].name), hist, p1,
                         coxia_to_foot_vector2d,
                         legs_too_short(Append(air, h.legs[k].name)))

\* the triangle test on tibia, femur and d chooses the case
choose_case(h, k, geom, air, hist, p1, coxia_to_foot_vector2d, d) ==
    IF is_triangle(h.tibia, h.femur, d)
    THEN case_a(h, k, geom, air,
                Posed([hist EXCEPT !.d = d, !.branch = "A"],
                      triangle_pose(h, p1, geom.p3, coxia_to_foot_vector2d, d)),
                triangle_pose(h, p1, geom.p3, coxia_to_foot_vector2d, d))
    ELSE case_b(h, k, geom, air, [hist EXCEPT !.d = d, !.branch = "B"],
                p1, coxia_to_foot_vector2d, d)

\* step 1: p0, p1 and the target p3 in the leg frame
solve_planar(h, k, geom, air, hist, p1) ==
    choose_case(h, k, geom, air, hist, p1, vector_from_to(p1, geom.p3),
                length(vector_from_to(p1, geom.p3)))

\* the body of the loop, from the coxia point on
solve_leg(h, k, geom, air) ==
    LET body_contact == h.body.vertices[k]
        foot == foot_tip(h.legs[k])
        coxia_vector == scalar_multiply(geom.unit_coxia_vector, h.coxia)
        coxia_point == add_vectors(body_contact, coxia_vector)
        p1 == Point(h.coxia, 0, 0)
        hist0 == [NotSolved EXCEPT !.reached = TRUE, !.geom = geom, !.p1 = p1]
    IN  IF coxia_point.z < foot.z
        THEN Stop(Alert("coxia joint shoved on ground", "", <<>>, 0, 0),
                  <<"coxia">>, air, hist0)
        ELSE solve_planar(h, k, geom, air, hist0, p1)

\* ---------------------------------------------------------------------
\* The geometry the requests of the model present to a leg
\* ---------------------------------------------------------------------
\* the coxia-to-foot vectors (x, z) in the local leg frame
Targets(h) ==
    { <<100, -75>>,       \* d = 125  a triangle forms
      <<-125, 0>>,        \* d = 125  foot behind the coxia joint, level
      <<28, -21>>,        \* d = 35   a flat triangle
      <<35, 0>>,          \* d = 35   a flat triangle, level
      <<160, -120>>,      \* d = 200  beyond femur + tibia
      <<140, -105>>,      \* d = 175  exactly femur + tibia
      <<-105, -140>>,     \* d = 175  exactly femur + tibia, backwards
      <<20, -15>>,        \* d = 25   exactly |femur - tibia|
      <<12, -16>> }       \* d = 20   closer than |femur - tibia|
    \cup (IF h.femur > h.tibia THEN { <<-100, -75>> } ELSE {})

Wrap(a) == ((a + 179) % 360) - 179

\* the twist that makes the reported coxia angle of leg k equal to a
TwistFor(k, a) ==
    LET t == Wrap(a + COXIA_AXES[k + 1])
    IN  [twist |-> np_abs(t), is_ccw |-> t < 0]

Geom(h, k, ucv, v, a) ==
    [unit_coxia_vector |-> ucv,
     p3 |-> Point(h.coxia + v[1], 0, v[2]),
     twist |-> TwistFor(k, a).twist,
     is_ccw |-> TwistFor(k, a).is_ccw]

\* a request at rest height presents every target to every leg; a tilted
\* request presents coxia vectors pointing down the slope; a request with
\* the body at foot height presents level targets under every twist
GeomInputs(params, h, k) ==
    LET level == Point(UnitScale, 0, 0)
        down == Point(24, 0, -7)
        nominal == <<100, -75>>
    IN  IF k \notin Legs THEN {}
        ELSE IF params.rot_x # 0
        THEN { Geom(h, k, level, nominal, 0), Geom(h, k, level, <<160, -120>>, 0),
               Geom(h, k, down, nominal, 0), Geom(h, k, down, nominal, 91) }
        ELSE IF params.percent_z # 0
        THEN { Geom(h, k, level, <<125, 0>>, a) : a \in {0, 90, 91, -91} }
        ELSE { Geom(h, k, level, v, 0) : v \in Targets(h) }

SolveLeg(geom) ==
    /\ pc = "loop"
    /\ i < LEG_COUNT
    /\ \E r \in {solve_leg(heap[hexapod], i, geom, legs_up_in_the_air)} :
           /\ legs_up_in_the_air' = r.air
           /\ solved' = [solved EXCEPT ![i] = r.hist]
           /\ evaluated' =
                 evaluated \o [n \in DOMAIN r.checks |-> <<i, r.checks[n]>>]
           /\ IF r.ret
              THEN /\ result' = [hexapod |-> detached_hexapod,
                                 poses |-> None, alert |-> r.alert]
                   /\ pc' = "returned"
                   /\ UNCHANGED <<heap, poses, i>>
              ELSE /\ heap' =
                        [heap EXCEPT
                            ![hexapod] = update_hexapod_points(@, i, r.points)]
                   /\ poses' = [poses EXCEPT ![i].coxia = r.hist.alpha,
                                             ![i].femur = r.hist.beta,
                                             ![i].tibia = r.hist.gamma]
                   /\ i' = i + 1
                   /\ UNCHANGED <<result, pc>>
    /\ UNCHANGED <<hexapod, detached_hexapod, ik_parameters, at_snapshot,
                   handed, twist_call>>

\* the loop is over: return hexapod, poses, None
Return ==
    /\ pc = "loop"
    /\ i = LEG_COUNT
    /\ result' = [hexapod |-> hexapod, poses |-> "poses", alert |-> NoAlert]
    /\ pc' = "returned"
    /\ UNCHANGED <<heap, hexapod, detached_hexapod, poses, ik_parameters, i,
                   legs_up_in_the_air, at_snapshot, solved, evaluated,
                   handed, twist_call>>

Next ==
    \/ \E params \in IKParameters : Request(params)
    \/ \E geom \in GeomInputs(ik_parameters, heap[hexapod], i) : SolveLeg(geom)
    \/ Return

Spec == Init /\ [][Next]_vars

\* ---------------------------------------------------------------------
\* compute_twist_wrt_to_world on its own, over every twist and offset
\* ---------------------------------------------------------------------
MaxTwist == 360

TwistOffsets == {COXIA_AXES[n] : n \in DOMAIN COXIA_AXES}

InitTwist ==
    /\ InitSolver
    /\ \E a \in (-MaxTwist) .. MaxTwist, c \in TwistOffsets :
          twist_call = [alpha |-> a, coxia_axis |-> c, out |-> 0,
                        done |-> FALSE]

ComputeTwist ==
    /\ ~twist_call.done
    /\ twist_call' =
          [twist_call EXCEPT
              !.out = compute_twist_wrt_to_world(twist_call.alpha,
                                                 twist_call.coxia_axis),
              !.done = TRUE]
    /\ UNCHANGED <<heap, hexapod, detached_hexapod, poses, ik_parameters, pc,
                   i, legs_up_in_the_air, result, at_snapshot, solved,
                   evaluated, handed>>

NextTwist == ComputeTwist

SpecTwist == InitTwist /\ [][NextTwist]_vars

\* ---------------------------------------------------------------------
\* A sequence of requests against the same module: the module-level
\* table poses is created once, at import, and outlives every call
\* ---------------------------------------------------------------------
MaxCalls == 2

\* the object a returned poses value refers to: the name poses is bound
\* once to one table, and the return statement hands out that table
pose_table(ref) == IF ref = "poses" THEN poses ELSE HEXAPOD_POSE

\* requests whose mount points clear the ground, so that the loop runs
SeqParameters == {IKP(-100, 0, 0, 0)}

\* a further call of inverse_kinematics_update
Call(params) ==
    /\ Len(handed) < MaxCalls
    /\ Request(params)

\* the call is over: the caller holds the returned tuple; the locals of
\* the call are gone, the module-level table and the live hexapod stay
Receive ==
    /\ pc = "returned"
    /\ handed' = Append(handed, [poses |-> result.poses,
                                 alert |-> result.alert.text,
                                 table |-> pose_table(result.poses)])
    /\ pc' = "idle"
    /\ i' = 0
    /\ legs_up_in_the_air' = <<>>
    /\ result' = NoResult
    /\ solved' = [k \in Legs |-> NotSolved]
    /\ evaluated' = <<>>
    /\ UNCHANGED <<heap, hexapod, detached_hexapod, poses, ik_parameters,
                   at_snapshot, twist_call>>

NextSeq ==
    \/ \E params \in SeqParameters : Call(params)
    \/ \E geom \in GeomInputs(ik_parameters, heap[hexapod], i) : SolveLeg(geom)
    \/ Return
    \/ Receive

SpecSeq == Init /\ [][NextSeq]_vars

\* ---------------------------------------------------------------------
\* Properties
\* ---------------------------------------------------------------------
Live == heap[hexapod]

Failed == pc = "returned" /\ result.alert # NoAlert

Succeeded == pc = "returned" /\ result.alert = NoAlert

BodyAlertText == "body contact shoved on ground"

StabilityTexts ==
    {"Unstable. Too many legs off the floor.",
     "Unstable. All left legs off the ground.",
     "Unstable. All right legs off the ground."}

Range(list) == {list[n] : n \in DOMAIN list}

\* C1: every return is either (the hexapod passed in, the pose table, no
\* alert), when all six legs passed every check, or (the detached deep
\* copy, no poses, a non-empty alert), when some check failed; nothing is
\* returned with both poses and alert present or both absent.
C1_ReturnShapes ==
    /\ pc # "returned" => result = NoResult
    /\ pc = "returned" =>
          \/ /\ result.hexapod = hexapod
             /\ result.poses = "poses"
             /\ result.alert = NoAlert
             /\ \A k \in Legs : solved[k].committed
          \/ /\ result.hexapod = detached_hexapod
             /\ detached_hexapod # hexapod
             /\ result.poses = None
             /\ result.alert # NoAlert
             /\ result.alert.text \notin {None, ""}
             /\ \E k \in Legs : ~solved[k].committed

C1_Witness == Failed /\ i = 2

\* C2: on a failure, at the body pre-check or at leg i, the hexapod returned
\* is the snapshot taken after update_stance and
\* detach_body_rotate_and_translate: its six legs have the points the legs
\* had at snapshot time, however many legs were committed into the live
\* hexapod meanwhile.
C2_SnapshotUntouched ==
    Failed =>
        /\ result.hexapod = detached_hexapod
        /\ \A k \in Legs :
              heap[result.hexapod].legs[k] = at_snapshot.legs[k]
        /\ heap[result.hexapod].body = at_snapshot.body

C2_Witness ==
    /\ Failed
    /\ i >= 2
    /\ \A k \in 0 .. (i - 1) : Live.legs[k] # at_snapshot.legs[k]

IsAlphaAlert == Failed /\ result.alert.text = "coxia angle (alpha)"

\* C3, as claimed: a request failing the coxia (alpha) limit on any leg
\* returns the range-of-motion alert with the detached snapshot and leaves
\* the leg points of the live hexapod as they were.
C3_AsClaimed ==
    IsAlphaAlert =>
        /\ result.hexapod = detached_hexapod
        /\ \A k \in Legs : Live.legs[k] = at_snapshot.legs[k]

\* C3, amended: a request failing the coxia (alpha) limit at leg i
\* (|alpha| > ALPHA_MAX_ANGLE) returns the range-of-motion alert for that
\* leg with the detached snapshot; the live hexapod's legs i..5 keep the
\* points they had at snapshot time, and its legs 0..i-1 carry the points
\* committed earlier in the request.
C3_AlphaFailure ==
    IsAlphaAlert =>
        /\ result.hexapod = detached_hexapod
        /\ detached_hexapod # hexapod
        /\ result.poses = None
        /\ result.alert.leg = LEG_NAMES[i + 1]
        /\ result.alert.limit = ALPHA_MAX_ANGLE
        /\ np_abs(result.alert.angle) > ALPHA_MAX_ANGLE
        /\ \A k \in Legs :
              /\ k >= i => Live.legs[k] = at_snapshot.legs[k]
              /\ k < i => /\ solved[k].committed
                          /\ Live.legs[k] # at_snapshot.legs[k]

C3_Witness == IsAlphaAlert /\ i = 2 /\ result.alert.angle = 91

LeftLegs == {"left-front", "left-middle", "left-back"}
RightLegs == {"right-front", "right-middle", "right-back"}

Unstable(list) ==
    \/ Len(list) >= 4
    \/ /\ Len(list) = 3
       /\ Range(list) \subseteq LeftLegs \/ Range(list) \subseteq RightLegs

\* the legs the request sent down the extended branch, in index order
Airborne(k) ==
    /\ solved[k].branch = "B"
    /\ ~(solved[k].d + Live.tibia < Live.femur)
    /\ ~(solved[k].d + Live.femur < Live.tibia)

\* C4: counting the legs recorded as airborne in this request, the
\* stability rule rejects the request exactly when the list reaches 4 or
\* more legs, or exactly 3 legs all on the left or all on the right; a
\* list of 0, 1 or 2 legs, or of 3 legs of both sides, is not rejected by
\* it; left-front, left-middle and left-back airborne fails with an alert
\* listing those legs.
C4_Stability ==
    /\ Range(legs_up_in_the_air) =
          {LEG_NAMES[k + 1] : k \in {j \in Legs : Airborne(j)}}
    /\ Len(legs_up_in_the_air) =
          Cardinality({j \in Legs : Airborne(j)})
    /\ Unstable(legs_up_in_the_air) <=>
          (Failed /\ result.alert.text \in StabilityTexts)
    /\ Unstable(legs_up_in_the_air) =>
          result.alert.legs = legs_up_in_the_air
    /\ (Succeeded \/ pc = "loop") => ~Unstable(legs_up_in_the_air)
    /\ legs_up_in_the_air = <<"left-front", "left-middle", "left-back">> =>
          /\ Failed
          /\ result.alert.text = "Unstable. All left legs off the ground."
          /\ result.alert.legs = <<"left-front", "left-middle", "left-back">>

C4_Witness ==
    /\ Failed
    /\ legs_up_in_the_air = <<"left-front", "left-middle", "left-back">>

C4_WitnessTwoSameSide ==
    /\ Succeeded
    /\ legs_up_in_the_air = <<"left-front", "left-back">>

MountAtOrBelowFoot(k) ==
    at_snapshot.body.vertices[k].z <= foot_tip(at_snapshot.legs[k]).z

MountBelowFoot(k) ==
    at_snapshot.body.vertices[k].z < foot_tip(at_snapshot.legs[k]).z

RejectedAtBody ==
    /\ Failed
    /\ result.alert.text = BodyAlertText
    /\ \A k \in Legs : ~solved[k].reached
    /\ \A k \in Legs : Live.legs[k] = at_snapshot.legs[k]

\* C5, as claimed: once stance and body transform are applied, a mount
\* point at or below (<=) its leg's foot tip has the request rejected with
\* the body-level alert before any leg is solved.
C5_AsClaimed ==
    (pc # "idle" /\ \E k \in Legs : MountAtOrBelowFoot(k)) => RejectedAtBody

\* C5, amended: once stance and body transform are applied, a mount point
\* strictly below (<) its leg's foot tip has the request rejected with the
\* body-level alert before any leg is solved and before any leg point is
\* written; with every mount point at or above its foot the body-level
\* alert is not raised.
C5_BodyPreCheck ==
    pc # "idle" =>
        /\ (\E k \in Legs : MountBelowFoot(k)) => RejectedAtBody
        /\ (\A k \in Legs : ~MountBelowFoot(k)) =>
              result.alert.text # BodyAlertText

C5_Witness ==
    /\ RejectedAtBody
    /\ \E k \in Legs : MountBelowFoot(k)
    /\ \E k \in Legs : ~MountAtOrBelowFoot(k)

\* the vector b is s / d times the vector a
ScaledAlong(a, b, s, d) ==
    /\ d * b.x = s * a.x
    /\ d * b.y = s * a.y
    /\ d * b.z = s * a.z

C7_TwistRange ==
    twist_call.done =>
        LET diff == twist_call.alpha - twist_call.coxia_axis
            r == twist_call.out
        IN  /\ -180 < r
            /\ r <= 180
            /\ (r - diff) % 360 = 0
            /\ diff \in {180, -180} => r = 180

C7_Witness ==
    /\ twist_call.done
    /\ twist_call.alpha - twist_call.coxia_axis = -180
    /\ twist_call.out = 180

\* the world points update_hexapod_points is given for a committed leg
CommittedLeg(k) ==
    LET g == solved[k].geom
        frame == [kind |-> "rotz",
                  angle |-> IF g.is_ccw THEN -g.twist ELSE g.twist]
        origin == at_snapshot.body.vertices[k]
        World(p, name) ==
            [name |-> name, x |-> p.x, y |-> p.y, z |-> p.z,
             wrt |-> <<frame, at_snapshot.body_rotation_frame,
                       [kind |-> "move", x |-> origin.x, y |-> origin.y,
                        z |-> origin.z]>>]
    IN  [name |-> LEG_NAMES[k + 1],
         p0 |-> World(Point(0, 0, 0), at_snapshot.legs[k].p0.name),
         p1 |-> World(solved[k].p1, at_snapshot.legs[k].p1.name),
         p2 |-> World(solved[k].p2, at_snapshot.legs[k].p2.name),
         p3 |-> World(solved[k].p3, at_snapshot.legs[k].p3.name)]

\* C8: the legs are solved in index order 0..5 and solving stops at the
\* first failing leg: with leg i the one in turn (the failing one after a
\* failure), the live hexapod's legs 0..i-1 carry the points computed in
\* this request, legs i..5 keep the points they had before the leg loop,
\* and no check of a leg after i has been evaluated.
C8_IndexOrder ==
    /\ \A k \in Legs :
          /\ k < i => /\ solved[k].committed
                      /\ Live.legs[k] = CommittedLeg(k)
          /\ k >= i => /\ ~solved[k].committed
                       /\ Live.legs[k] = at_snapshot.legs[k]
          /\ k > i => ~solved[k].reached
    /\ \A n \in DOMAIN evaluated : evaluated[n][1] <= i
    /\ \A m, n \in DOMAIN evaluated :
          m < n => evaluated[m][1] <= evaluated[n][1]
    /\ \A k \in Legs :
          k < i => \E n \in DOMAIN evaluated :
                      evaluated[n] = <<k, "alpha">>
    /\ (Failed /\ result.alert.text # BodyAlertText) =>
          /\ i \in Legs
          /\ solved[i].reached
          /\ evaluated[Len(evaluated)][1] = i

C8_Witness == Failed /\ i = 3 /\ solved[3].reached

\* the checks of one leg, in the order of the code
CheckRank(c) ==
    CASE c = "coxia" -> 1
      [] c \in {"ground", "femur too long"} -> 2
      [] c = "tibia too long" -> 3
      [] c = "stability" -> 4
      [] c = "beta" -> 5
      [] c = "gamma" -> 6
      [] c = "alpha" -> 7

LegChecks ==
    {"coxia", "ground", "femur too long", "tibia too long", "stability",
     "beta", "gamma", "alpha"}

CheckOfText(text) ==
    CASE text = "coxia joint shoved on ground" -> "coxia"
      [] text = "the ground is blocking the path" -> "ground"
      [] text = "Femur length is too long" -> "femur too long"
      [] text = "Tibia length is too long" -> "tibia too long"
      [] text \in StabilityTexts -> "stability"
      [] text = "beta angle (beta)" -> "beta"
      [] text = "gamma angle (gamma)" -> "gamma"
      [] text = "coxia angle (alpha)" -> "alpha"

\* the legs 0..k that are airborne, in index order
AirborneUpTo(k) ==
    LET F[n \in -1 .. k] ==
            IF n = -1 THEN <<>>
            ELSE IF Airborne(n) THEN Append(F[n - 1], LEG_NAMES[n + 1])
            ELSE F[n - 1]
    IN  F[k]

\* the reported coxia angle: twist minus offset, brought into (-180, 180]
ReportedAlpha(k) ==
    LET g == solved[k].geom
        signed == IF g.is_ccw THEN -g.twist ELSE g.twist
    IN  Wrap(signed - COXIA_AXES[k + 1])

\* leg k violates check c
Violates(k, c) ==
    LET s == solved[k]
    IN  CASE c = "coxia" ->
               at_snapshot.body.vertices[k].z
                 + (s.geom.unit_coxia_vector.z * Live.coxia) \div UnitScale
                   < foot_tip(at_snapshot.legs[k]).z
          [] c = "ground" -> s.branch = "A" /\ s.p2.z < s.p3.z
          [] c = "femur too long" ->
               s.branch = "B" /\ s.d + Live.tibia < Live.femur
          [] c = "tibia too long" ->
               s.branch = "B" /\ s.d + Live.femur < Live.tibia
          [] c = "stability" -> s.branch = "B" /\ Unstable(AirborneUpTo(k))
          [] c = "beta" -> np_abs(s.beta) > BETA_MAX_ANGLE
          [] c = "gamma" -> np_abs(s.gamma) > GAMMA_MAX_ANGLE
          [] c = "alpha" -> np_abs(ReportedAlpha(k)) > ALPHA_MAX_ANGLE

\* C9: the alert of a failing request is that of the first violated check
\* in the fixed order: the body pre-check, then leg by leg in index order
\* the coxia joint below the foot, then in Case A the tibia joint below
\* the foot or in Case B femur too long, tibia too long, stability of the
\* airborne list with this leg, then the beta, gamma and alpha limits.
C9_FirstViolation ==
    pc = "returned" =>
        IF result.alert = NoAlert
        THEN /\ \A k \in Legs : ~MountBelowFoot(k)
             /\ \A k \in Legs : \A c \in LegChecks : ~Violates(k, c)
        ELSE IF result.alert.text = BodyAlertText
        THEN \E k \in Legs : MountBelowFoot(k)
        ELSE LET c == CheckOfText(result.alert.text)
             IN  /\ \A k \in Legs : ~MountBelowFoot(k)
                 /\ \A k \in 0 .. (i - 1) :
                       \A e \in LegChecks : ~Violates(k, e)
                 /\ \A e \in LegChecks :
                       CheckRank(e) < CheckRank(c) => ~Violates(i, e)
                 /\ Violates(i, c)

\* a leg that violates two checks: the ground blocks its path and its
\* femur angle is past the limit
C9_Witness ==
    /\ Failed
    /\ result.alert.text = "the ground is blocking the path"
    /\ i >= 1
    /\ Violates(i, "beta")

\* C10: a leg is recorded as airborne only when its target is beyond the
\* combined reach, femur + tibia < d: whenever the triangle test fails and
\* neither d + tibia < femur nor d + femur < tibia holds, femur + tibia < d.
C10_AirborneOnlyBeyondReach ==
    \A k \in Legs :
        /\ LEG_NAMES[k + 1] \in Range(legs_up_in_the_air) =>
              Live.femur + Live.tibia < solved[k].d
        /\ Airborne(k) => Live.femur + Live.tibia < solved[k].d

\* C11: across any sequence of requests, the pose table handed to the
\* caller by a successful request is not changed afterwards: when a later
\* request returns a failure at leg i (legs 0..i-1 having passed), every
\* coxia/femur/tibia entry of each table returned earlier is what it was
\* when that table was returned, and when a later request returns
\* successfully, its table is not the object of a table returned earlier.
Tables == {n \in DOMAIN handed : handed[n].poses # None}

C11_TableKept ==
    pc = "returned" =>
        /\ result.poses = None =>
              \A n \in Tables :
                  \A k \in Legs :
                      /\ pose_table(handed[n].poses)[k].coxia
                            = handed[n].table[k].coxia
                      /\ pose_table(handed[n].poses)[k].femur
                            = handed[n].table[k].femur
                      /\ pose_table(handed[n].poses)[k].tibia
                            = handed[n].table[k].tibia
        /\ result.poses # None =>
              \A n \in Tables : handed[n].poses # result.poses

====
